---- MODULE Spec2Model ----
(***************************************************************************)
(* A model of the factor-evaluation engine of src/backtest.py              *)
(* (class AlphaBacktest) together with AlphaFactors.calculate_all_factors  *)
(* of src/alpha_factors.py.                                                *)
(*                                                                         *)
(* Numbers are exact: a float is modelled by a rational <<num, den>> with  *)
(* den > 0 in lowest terms, NaN by <<0, 0>> and +-inf by <<+-1, 0>>.       *)
(* Floating-point rounding is outside the model.                           *)
(***************************************************************************)
EXTENDS Integers, Sequences, FiniteSets, TLC

VARIABLES
    ohlcv_data,   \* self.ohlcv_data: key -> panel (a panel: date -> instrument -> number)
    factors,      \* self.factors: factor name -> panel; <<>> is the empty dict
    returns,      \* self.returns: panel of forward returns; <<>> while unset
    fill_pad,     \* whether the installed pandas pads missing values in pct_change
    pc,           \* "new" | "idle" | "returned" | "raised" | "dead"
    last,         \* the call that just ended: its name, arguments, value and diagnostics
    computed,     \* what has been computed on this instance so far (a set of names)
    assigned      \* the attributes of self that have been assigned

vars == <<ohlcv_data, factors, returns, fill_pad, pc, last, computed, assigned>>

----------------------------------------------------------------------------
(* Bounds of the model.                                                    *)

NumDates == 7
NumInst == 2
MaxPrice == 2
RowInst == 3
MaxVal == 3
MaxRet == 2
LongDates == 2
LongInst == 2
LongVal == 2

(* Program constants.                                                      *)

ReversalWindow == 5
RatioWindow == 10
BreakoutWindow == 20
Annualization == 252
DefaultQuantiles == 3

Keys == {"open", "high", "low", "close", "volume"}
Instruments == 1..NumInst

----------------------------------------------------------------------------
(* Evaluation helpers.  Bind(v, F) is F(v) with v evaluated once; Eager(f) *)
(* is the function f with its body evaluated once per argument.            *)

Bind(v, F(_)) == CHOOSE z \in {F(x) : x \in {v}} : TRUE
Eager(f) == f @@ <<>>

----------------------------------------------------------------------------
(* Exact arithmetic with NaN.                                              *)

NaN == <<0, 0>>
Zero == <<0, 1>>
One == <<1, 1>>

Abs(n) == IF n < 0 THEN -n ELSE n
Sign(n) == IF n < 0 THEN -1 ELSE IF n > 0 THEN 1 ELSE 0

RECURSIVE GCDV(_)
GCDV(p) == IF p[2] = 0 THEN p[1] ELSE Bind(<<p[2], p[1] % p[2]>>, GCDV)
GCD(a, b) == Bind(<<a, b>>, GCDV)

\* The number n/d: lowest terms; n/0 is +-inf, 0/0 is NaN (IEEE division).
FracV(p) ==
    IF p[2] = 0 THEN <<Sign(p[1]), 0>>
    ELSE Bind(GCD(Abs(p[1]), Abs(p[2])),
              LAMBDA g : <<(Sign(p[2]) * p[1]) \div g, Abs(p[2]) \div g>>)
Frac(n, d) == Bind(<<n, d>>, FracV)

Num(n) == <<n, 1>>
IsNaN(x) == x = NaN
IsFinite(x) == x[2] # 0
notna(x) == ~IsNaN(x)

NegV(x) == <<-x[1], x[2]>>
Neg(x) == Bind(x, NegV)

AddV(x, y) ==
    IF IsFinite(x) /\ IsFinite(y) THEN Frac(x[1] * y[2] + y[1] * x[2], x[2] * y[2])
    ELSE IF IsNaN(x) \/ IsNaN(y) \/ (x[2] = 0 /\ y[2] = 0 /\ x[1] # y[1]) THEN NaN
    ELSE IF IsFinite(x) THEN y ELSE x
Add(x, y) == Bind(<<x, y>>, LAMBDA p : AddV(p[1], p[2]))
Sub(x, y) == Bind(<<x, y>>, LAMBDA p : AddV(p[1], NegV(p[2])))

MulV(x, y) ==
    IF IsFinite(x) /\ IsFinite(y) THEN Frac(x[1] * y[1], x[2] * y[2])
    ELSE IF IsNaN(x) \/ IsNaN(y) \/ x[1] = 0 \/ y[1] = 0 THEN NaN
    ELSE <<Sign(x[1]) * Sign(y[1]), 0>>
Mul(x, y) == Bind(<<x, y>>, LAMBDA p : MulV(p[1], p[2]))
Square(x) == Bind(x, LAMBDA v : MulV(v, v))

DivV(x, y) ==
    IF IsFinite(x) /\ IsFinite(y) THEN Frac(x[1] * y[2], x[2] * y[1])
    ELSE IF IsNaN(x) \/ IsNaN(y) \/ ~IsFinite(x) THEN NaN
    ELSE Zero
Div(x, y) == Bind(<<x, y>>, LAMBDA p : DivV(p[1], p[2]))

LessV(x, y) == IsFinite(x) /\ IsFinite(y) /\ x[1] * y[2] < y[1] * x[2]
Less(x, y) == Bind(<<x, y>>, LAMBDA p : LessV(p[1], p[2]))
AbsR(x) == Bind(x, LAMBDA v : <<Abs(v[1]), v[2]>>)

\* The sum of the values a function (fully evaluated) takes on a set of keys.
RECURSIVE SumOverV(_, _)
SumOverV(f, keys) ==
    IF keys = {} THEN Zero
    ELSE Bind(CHOOSE x \in keys : TRUE,
              LAMBDA k : Add(f[k], Bind(keys \ {k}, LAMBDA rest : SumOverV(f, rest))))
SumOver(f, keys) == Bind(keys, LAMBDA ks : SumOverV(f, ks))

\* Series.mean() / DataFrame.mean(axis=1): the mean of the non-missing values (skipna).
\* f is a fully evaluated function.
Mean(f, keys) ==
    Bind({k \in keys : notna(f[k])},
         LAMBDA valid : IF valid = {} THEN NaN
                        ELSE Div(SumOver(f, valid), Num(Cardinality(valid))))

\* The sum of squared deviations from the mean over the non-missing values.
SumSquares(f, keys) ==
    Bind(<<{k \in keys : notna(f[k])}, Mean(f, keys)>>,
         LAMBDA p : SumOver(Eager([k \in p[1] |-> Square(Sub(f[k], p[2]))]), p[1]))

\* Series.var() (ddof = 1) over the non-missing values: missing with fewer than two.
Var(f, keys) ==
    Bind(Cardinality({k \in keys : notna(f[k])}),
         LAMBDA n : IF n < 2 THEN NaN ELSE Div(SumSquares(f, keys), Num(n - 1)))

----------------------------------------------------------------------------
(* Panels (pandas DataFrame): a function from the dates of its index to    *)
(* rows, a row a function from instruments to numbers.  The index is kept  *)
(* in increasing date order, as the loaders build it.  The operators below *)
(* take fully evaluated panels.                                            *)

Index(df) == DOMAIN df
Columns(df) == IF df = <<>> THEN {} ELSE DOMAIN df[CHOOSE d \in DOMAIN df : TRUE]

\* The position (1-based) of date d in a sorted index, and the date at a position.
Pos(idx, d) == Cardinality({e \in idx : e <= d})
At(idx, p) == CHOOSE d \in idx : Pos(idx, d) = p

\* df.loc[dates]
Loc(df, dates) == Eager([d \in dates |-> df[d]])

\* The last valid observation at or before d in column i (DataFrame.ffill).
FfillCell(df, d, i) ==
    Bind({e \in Index(df) : e <= d /\ notna(df[e][i])},
         LAMBDA seen : IF seen = {} THEN NaN
                       ELSE df[CHOOSE e \in seen : \A f \in seen : f <= e][i])

Ffill(df) == Eager([d \in Index(df) |-> Eager([i \in Columns(df) |-> FfillCell(df, d, i)])])

\* df.shift(n): the value n rows earlier (n > 0) or -n rows later (n < 0).
ShiftCell(df, n, d, i) ==
    Bind(Pos(Index(df), d) - n,
         LAMBDA p : IF p < 1 \/ p > Cardinality(Index(df)) THEN NaN
                    ELSE df[At(Index(df), p)][i])

Shift(df, n) == Eager([d \in Index(df) |-> Eager([i \in Columns(df) |-> ShiftCell(df, n, d, i)])])

\* df.pct_change(n): x[t] / x[t-n] - 1, on the padded frame when pandas pads.
PctChangeOf(x, prev) ==
    Eager([d \in Index(x) |-> Eager([i \in Columns(x) |-> Sub(Div(x[d][i], prev[d][i]), One)])])

pct_change(df, n, pad) ==
    Bind(IF pad THEN Ffill(df) ELSE df, LAMBDA x : Bind(Shift(x, n), LAMBDA prev : PctChangeOf(x, prev)))

\* df.rolling(window).mean() and the square of df.rolling(window).std(): missing
\* until the window holds `window` observations, none of them missing.
Window(df, d, w) == {e \in Index(df) : Pos(Index(df), e) > Pos(Index(df), d) - w /\ e <= d}

WindowFull(df, d, i, w) ==
    /\ Pos(Index(df), d) >= w
    /\ \A e \in Window(df, d, w) : notna(df[e][i])

RollingCell(df, w, d, i, Stat(_, _)) ==
    IF WindowFull(df, d, i, w)
    THEN Bind(Window(df, d, w), LAMBDA win : Bind(Eager([e \in win |-> df[e][i]]),
                                                  LAMBDA col : Stat(col, win)))
    ELSE NaN

RollingMean(df, w) ==
    Eager([d \in Index(df) |-> Eager([i \in Columns(df) |-> RollingCell(df, w, d, i, Mean)])])

RollingVar(df, w) ==
    Eager([d \in Index(df) |-> Eager([i \in Columns(df) |-> RollingCell(df, w, d, i, Var)])])

----------------------------------------------------------------------------
(* src/alpha_factors.py                                                    *)

NegPanel(df) == Eager([d \in Index(df) |-> Eager([i \in Columns(df) |-> Neg(df[d][i])])])

price_reversal(prices, window) == Bind(pct_change(prices, window, fill_pad), NegPanel)

Epsilon == <<1, 100000000>>

RatioPanel(volume_change, price_change) ==
    Eager([d \in Index(price_change) |-> Eager([i \in Columns(price_change) |->
        Div(AbsR(volume_change[d][i]), Add(AbsR(price_change[d][i]), Epsilon))])])

volume_price_ratio(prices, volumes, window) ==
    Bind(<<pct_change(prices, 1, fill_pad), pct_change(volumes, 1, fill_pad)>>,
         LAMBDA p : Bind(RatioPanel(p[2], p[1]), LAMBDA ratio : RollingMean(ratio, window)))

\* x > prev + 2 * sqrt(var), compared without taking the root; a comparison with a
\* missing operand is False.
AboveBand(x, prev, var) ==
    /\ notna(x) /\ notna(prev) /\ notna(var)
    /\ Less(prev, x)
    /\ Less(Mul(Num(4), var), Square(Sub(x, prev)))

BreakoutCell(high, low, prev, var) ==
    Num((IF AboveBand(high, prev, var) THEN 1 ELSE 0)
        + (IF AboveBand(Neg(low), Neg(prev), var) THEN -1 ELSE 0))

volatility_breakout(high_prices, low_prices, close_prices, window) ==
    Bind(<<RollingVar(close_prices, window), Shift(close_prices, 1)>>,
         LAMBDA p : Eager([d \in Index(close_prices) |-> Eager([i \in Columns(close_prices) |->
                        BreakoutCell(high_prices[d][i], low_prices[d][i],
                                     p[2][d][i], p[1][d][i])])]))

FactorNames == <<"price_reversal", "volume_price_ratio", "volatility_breakout">>
FactorNameSet == {FactorNames[n] : n \in 1..Len(FactorNames)}

\* The keys calculate_all_factors reads, in the order it reads them; the first one
\* absent raises KeyError, after the factors before it have been computed.
AllFactorsReads ==
    << [key |-> "close", done |-> {}],
       [key |-> "volume", done |-> {"price_reversal"}],
       [key |-> "high", done |-> {"price_reversal", "volume_price_ratio"}],
       [key |-> "low", done |-> {"price_reversal", "volume_price_ratio"}] >>

FirstAbsent(data) ==
    Bind({n \in 1..Len(AllFactorsReads) : AllFactorsReads[n].key \notin DOMAIN data},
         LAMBDA missing : IF missing = {} THEN 0
                          ELSE CHOOSE n \in missing : \A m \in missing : n <= m)

ComputeFactor(data, n) ==
    IF n = "price_reversal"
    THEN price_reversal(data["close"], ReversalWindow)
    ELSE IF n = "volume_price_ratio"
    THEN volume_price_ratio(data["close"], data["volume"], RatioWindow)
    ELSE volatility_breakout(data["high"], data["low"], data["close"], BreakoutWindow)

calculate_all_factors(data) ==
    Bind(FirstAbsent(data),
         LAMBDA first :
            IF first # 0
            THEN [raises |-> AllFactorsReads[first].key,
                  done |-> AllFactorsReads[first].done,
                  value |-> <<>>]
            ELSE [raises |-> "",
                  done |-> FactorNameSet,
                  value |-> Eager([n \in FactorNameSet |-> ComputeFactor(data, n)])])

----------------------------------------------------------------------------
(* A square-root value sgn * sqrt(sq), sq a non-negative rational: the     *)
(* exact value of a ratio whose denominator is a standard deviation or a   *)
(* product of two (a correlation, a Sharpe ratio).  NaN has sq = NaN.      *)

RootNaN == [sgn |-> 0, sq |-> NaN]
RootZero == [sgn |-> 0, sq |-> Zero]

\* num / sqrt(den2)
OverRootV(num, den2) ==
    IF IsNaN(num) \/ IsNaN(den2) \/ (num = Zero /\ den2 = Zero) THEN RootNaN
    ELSE [sgn |-> Sign(num[1]), sq |-> DivV(MulV(num, num), den2)]
OverRoot(num, den2) == Bind(<<num, den2>>, LAMBDA p : OverRootV(p[1], p[2]))

RootIsNaN(x) == IsNaN(x.sq)
RootIsFinite(x) == IsFinite(x.sq)
\* -1 <= x <= 1
RootInUnit(x) == IsFinite(x.sq) /\ ~LessV(One, x.sq)

----------------------------------------------------------------------------
(* Correlations.  x and y are fully evaluated functions, keys a set.       *)

\* The sum over keys of (x - mx) * (y - my).
CoMoment(x, mx, y, my, keys) ==
    SumOver(Eager([k \in keys |-> Mul(Sub(x[k], mx), Sub(y[k], my))]), keys)

\* Pearson correlation of x and y over `keys` (all present in both): the covariance
\* over the root of the product of the variances; 0/0 is NaN.
PearsonV(x, y, keys) ==
    IF keys = {} THEN RootNaN
    ELSE Bind(<<Mean(x, keys), Mean(y, keys)>>,
              LAMBDA m : OverRoot(CoMoment(x, m[1], y, m[2], keys),
                                  Mul(CoMoment(x, m[1], x, m[1], keys),
                                      CoMoment(y, m[2], y, m[2], keys))))
Pearson(x, y, keys) == Bind(<<x, y, keys>>, LAMBDA p : PearsonV(p[1], p[2], p[3]))

\* Series.rank() (method='average') over `keys`.
RankAverage(x, keys) ==
    Eager([k \in keys |->
        Frac(2 * Cardinality({j \in keys : LessV(x[j], x[k])})
               + Cardinality({j \in keys : x[j] = x[k]}) + 1, 2)])

\* A variant of SpearmanV: a constant input gives the coefficient 0.
SpearmanZeroOnConstant(x, y, keys) ==
    IF Cardinality(keys) <= 1 THEN RootNaN
    ELSE IF (\A j, k \in keys : x[j] = x[k]) \/ (\A j, k \in keys : y[j] = y[k]) THEN RootZero
    ELSE Pearson(RankAverage(x, keys), RankAverage(y, keys), keys)

\* Series.corr(other, method='spearman') over the pairs `keys`, none missing:
\* scipy.stats.spearmanr gives NaN for fewer than two observations and for a
\* constant input.
SpearmanV(x, y, keys) ==
    IF Cardinality(keys) <= 1 THEN RootNaN
    ELSE IF (\A j, k \in keys : x[j] = x[k]) \/ (\A j, k \in keys : y[j] = y[k]) THEN RootNaN
    ELSE Pearson(RankAverage(x, keys), RankAverage(y, keys), keys)
Spearman(x, y, keys) == Bind(<<x, y, keys>>, LAMBDA p : SpearmanV(p[1], p[2], p[3]))

----------------------------------------------------------------------------
(* src/backtest.py: AlphaBacktest.  The operators take fully evaluated     *)
(* panels, rows and series.                                                *)

\* __init__, line 24: close.pct_change(1).shift(-1)
ForwardReturns(close) == Bind(pct_change(close, 1, fill_pad), LAMBDA chg : Shift(chg, -1))

\* calculate_factors, lines 29-39: the dates on which at least 80% of the
\* instruments have a close, and every panel of the input restricted to them.
valid_dates(data) ==
    {d \in Index(data["close"]) :
        10 * Cardinality({i \in Columns(data["close"]) : notna(data["close"][d][i])})
            >= 8 * Cardinality(Columns(data["close"]))}

filtered_data(data) ==
    Bind(valid_dates(data), LAMBDA dates : Eager([key \in DOMAIN data |-> Loc(data[key], dates)]))

\* A variant of RankFirst: equal values are ranked in reverse column order.
RankLast(row) ==
    Eager([i \in DOMAIN row |->
        IF IsNaN(row[i]) THEN 0
        ELSE 1 + Cardinality({j \in DOMAIN row :
                    notna(row[j]) /\ (LessV(row[j], row[i]) \/ (row[j] = row[i] /\ j > i))})])

\* Series.rank(method='first'): missing values keep no rank (0 here); equal values
\* are ranked in column order.
RankFirst(row) ==
    Eager([i \in DOMAIN row |->
        IF IsNaN(row[i]) THEN 0
        ELSE 1 + Cardinality({j \in DOMAIN row :
                    notna(row[j]) /\ (LessV(row[j], row[i]) \/ (row[j] = row[i] /\ j < i))})])

\* Series.quantile(m / q) of the ranks 1..n (linear interpolation between order
\* statistics): the edge m of pd.qcut's q bins.
QuantileEdge(n, m, q) == AddV(One, Frac((n - 1) * m, q))

\* algos.unique: the first occurrence of every value, in order.
Unique(s) == Bind({j \in 1..Len(s) : \A h \in 1..(j - 1) : s[h] # s[j]},
                  LAMBDA keep : [p \in 1..Cardinality(keep) |->
                                    s[CHOOSE j \in keep : Cardinality({h \in keep : h <= j}) = p]])

\* The edges pd.qcut cuts at: duplicates='drop' drops repeated edges, unless there
\* are only two.
BinEdges(n, q) ==
    Bind([m \in 1..(q + 1) |-> QuantileEdge(n, m - 1, q)],
         LAMBDA edges : Bind(Unique(edges),
                             LAMBDA uniq : IF Len(uniq) < Len(edges) /\ Len(edges) # 2
                                           THEN uniq ELSE edges))

\* A variant of BinOf: bins.searchsorted(rank, side='right').
BinOfRight(rank, bins) ==
    IF rank = 0 THEN 0
    ELSE Cardinality({m \in 1..Len(bins) : ~LessV(Num(rank), bins[m])})

\* bins.searchsorted(rank, side='left'), with include_lowest: the bin of a rank.
BinOf(rank, bins) ==
    IF rank = 0 THEN 0
    ELSE IF Num(rank) = bins[1] THEN 1
    ELSE Cardinality({m \in 1..Len(bins) : LessV(bins[m], Num(rank))})

\* pd.qcut(ranks, q, labels, duplicates='drop'): the label number of each
\* instrument (0: none), or a raised ValueError.
qcutV(ranks, q, bins) ==
    IF q # Len(bins) - 1
    THEN [raises |-> TRUE, labels |-> Eager([i \in DOMAIN ranks |-> 0])]
    ELSE [raises |-> FALSE,
          labels |-> Eager([i \in DOMAIN ranks |->
                        Bind(BinOf(ranks[i], bins),
                             LAMBDA id : IF id = Len(bins) THEN 0 ELSE id)])]

qcut(ranks, q) ==
    Bind(Cardinality({i \in DOMAIN ranks : ranks[i] # 0}),
         LAMBDA n : IF n = 0
                    THEN [raises |-> TRUE, labels |-> Eager([i \in DOMAIN ranks |-> 0])]
                    ELSE Bind(BinEdges(n, q), LAMBDA bins : qcutV(ranks, q, bins)))

\* len(row.dropna().unique())
NumUnique(row) == Cardinality({row[i] : i \in {j \in DOMAIN row : notna(row[j])}})

\* Line 72: there are enough different values to bucket the date.
EnoughValues(row, quantiles) == NumUnique(row) >= quantiles

NoLabels(row) == Eager([i \in DOMAIN row |-> 0])

\* Lines 67-88, one date: the labels of the row (0: none) and the diagnostic printed.
BucketRow(row, quantiles) ==
    IF EnoughValues(row, quantiles)
    THEN Bind(Bind(RankFirst(row), LAMBDA ranks : qcut(ranks, quantiles)),
              LAMBDA cut : IF cut.raises
                           THEN [labels |-> NoLabels(row), diag |-> "qcut_error"]
                           ELSE [labels |-> cut.labels, diag |-> ""])
    ELSE [labels |-> NoLabels(row), diag |-> "skipped"]

\* Lines 64-88: for every date, the labels (factor_quantiles) and the diagnostic.
Bucketing(factor, quantiles) == Eager([d \in Index(factor) |-> BucketRow(factor[d], quantiles)])

\* Line 94, one date and one label: (self.returns * mask).mean(axis=1).  The
\* product is aligned on the union of the two indexes and is missing where either
\* frame has no row; a False of the mask multiplies the return by 0.
MaskedReturn(ret, inBucket) == MulV(ret, IF inBucket THEN One ELSE Zero)

GroupReturn(rets, factor_quantiles, q, d) ==
    IF d \notin Index(rets) \/ d \notin Index(factor_quantiles) THEN NaN
    ELSE Bind(Columns(rets) \cap Columns(factor_quantiles),
              LAMBDA cols :
                Bind(Eager([i \in cols |->
                        MaskedReturn(rets[d][i], factor_quantiles[d][i] = q)]),
                     LAMBDA prod : Mean(prod, cols)))

\* Lines 90-96: the frame of group returns, one column per label Q1..Qk.
GroupReturns(rets, factor_quantiles, quantiles) ==
    Eager([q \in 1..quantiles |->
        Eager([d \in Index(rets) \cup Index(factor_quantiles) |->
            GroupReturn(rets, factor_quantiles, q, d)])])

\* calculate_factor_returns, lines 58-96: the frame returned, with the labels
\* assigned on the way (factor_quantiles) and the diagnostic printed per date.
factor_returns(factor, rets, quantiles) ==
    Bind(Bucketing(factor, quantiles),
         LAMBDA b :
            Bind(Eager([d \in DOMAIN b |-> b[d].labels]),
                 LAMBDA factor_quantiles :
                    [value |-> GroupReturns(rets, factor_quantiles, quantiles),
                     factor_quantiles |-> factor_quantiles,
                     diag |-> Eager([d \in DOMAIN b |-> b[d].diag])]))

\* Line 112: the columns of group_returns hold both Q{quantiles} and Q1.
HasExtremeColumns(group_returns, quantiles) ==
    quantiles \in DOMAIN group_returns /\ 1 \in DOMAIN group_returns

\* A variant of LongShortOf: the bottom bucket minus the top bucket.
LongShortReversed(group_returns, rets, quantiles) ==
    [value |-> Eager([d \in DOMAIN group_returns[1] |->
                    Sub(group_returns[1][d], group_returns[quantiles][d])]),
     diag |-> ""]

\* Lines 112-118, from the frame of group returns.
LongShortOf(group_returns, rets, quantiles) ==
    IF HasExtremeColumns(group_returns, quantiles)
    THEN [value |-> Eager([d \in DOMAIN group_returns[1] |->
                        Sub(group_returns[quantiles][d], group_returns[1][d])]),
          diag |-> ""]
    ELSE [value |-> Eager([d \in Index(rets) |-> NaN]), diag |-> "no_grouping"]

\* calculate_long_short_returns, lines 109-118.
long_short_returns(factor, rets, quantiles) ==
    Bind(factor_returns(factor, rets, quantiles),
         LAMBDA fr : Bind(LongShortOf(fr.value, rets, quantiles),
                          LAMBDA ls : [value |-> ls.value, diag |-> ls.diag,
                                       group_returns |-> fr.value,
                                       factor_quantiles |-> fr.factor_quantiles,
                                       skipped |-> fr.diag]))

\* Lines 142-144, one date: the pairs with both values, and the coefficient.
ValidPairs(f, r) == {i \in DOMAIN f \cap DOMAIN r : ~(IsNaN(f[i]) \/ IsNaN(r[i]))}

HasPairs(f, r) == Cardinality(ValidPairs(f, r)) > 0

\* calculate_factor_ic, lines 136-146.
factor_ic(factor, rets) ==
    Eager([d \in Index(factor) |->
        IF d \in Index(rets) /\ HasPairs(factor[d], rets[d])
        THEN Spearman(factor[d], rets[d], ValidPairs(factor[d], rets[d]))
        ELSE RootNaN])

\* A variant of StdNonZero: no guard, the ratio is always taken.
StdNonZeroAlways(std2) == TRUE

\* Line 161 (and 232): the guard of the ratio, on the square of the deviation.
\* A missing deviation is not equal to 0.
StdNonZero(std2) == std2 # Zero

\* calculate_sharpe_ratio, lines 159-161, of a series (date -> number).
sharpe_ratio(series, annualization) ==
    Bind(<<Mul(Mean(series, DOMAIN series), Num(annualization)),
           Mul(Var(series, DOMAIN series), Num(annualization))>>,
         LAMBDA p : IF StdNonZero(p[2]) THEN OverRootV(p[1], p[2]) ELSE RootZero)

\* The non-missing values of a series of square-root values, in date order.
Defined(series) ==
    Bind({k \in DOMAIN series : ~RootIsNaN(series[k])},
         LAMBDA keep : [p \in 1..Cardinality(keep) |->
                            series[CHOOSE k \in keep : Cardinality({h \in keep : h <= k}) = p]])

\* Series.std() of square-root values, as far as the guard needs it: missing with
\* fewer than two values, 0 exactly when they are all equal.
StdOf(vals) ==
    IF Len(vals) < 2 THEN "nan"
    ELSE IF \A j, k \in 1..Len(vals) : vals[j] = vals[k] THEN "zero"
    ELSE "positive"

\* Lines 231-232: ic_series.mean() and the information ratio, kept as the values
\* they are computed from (a sum of square roots has no closed form here).
mean_ic(ic_series) == [kind |-> "mean", of |-> Defined(ic_series)]

IcStdNonZero(vals) == StdOf(vals) # "zero"

ic_ir(ic_series) ==
    Bind(Defined(ic_series),
         LAMBDA vals : IF IcStdNonZero(vals)
                       THEN [kind |-> "mean_over_std", of |-> vals]
                       ELSE [kind |-> "zero", of |-> <<>>])

\* calculate_factor_correlation, lines 174-200.  stack() drops the missing values,
\* so the pivot has a row per (date, ticker) on which some factor has a value and
\* a column per factor that has a value anywhere; corr() is pairwise complete.
Stacked(factor) == {c \in Index(factor) \X Columns(factor) : notna(factor[c[1]][c[2]])}

CorrOf(col, cols) ==
    Eager([a \in cols |-> Eager([b \in cols |->
        Pearson(col[a], col[b], DOMAIN col[a] \cap DOMAIN col[b])])])

factor_correlation(fs) ==
    Bind(Eager([n \in DOMAIN fs |-> Bind(Stacked(fs[n]),
                    LAMBDA cells : Eager([c \in cells |-> fs[n][c[1]][c[2]]]))]),
         LAMBDA col : Bind({n \in DOMAIN col : DOMAIN col[n] # {}},
                           LAMBDA cols : CorrOf(col, cols)))

\* Line 222: long_short_returns.empty or long_short_returns.isna().all()
EmptyOrAllMissing(series) == DOMAIN series = {} \/ \A d \in DOMAIN series : IsNaN(series[d])

\* Lines 226-234: the entry of a factor.
EntryOf(name, returns_series, ic_series) ==
    [key |-> name, type |-> "dict",
     value |-> [sharpe_ratio |-> sharpe_ratio(returns_series, Annualization),
                mean_ic |-> mean_ic(ic_series),
                ic_ir |-> ic_ir(ic_series),
                returns |-> returns_series]]

\* Lines 218-234, one factor: its entry of the results, or none (line 223 printed
\* the warning).
EvaluateFactor(fs, rets, name, quantiles) ==
    Bind(long_short_returns(fs[name], rets, quantiles).value,
         LAMBDA ls : IF EmptyOrAllMissing(ls) THEN <<>>
                     ELSE Bind(factor_ic(fs[name], rets),
                               LAMBDA ic_series : << EntryOf(name, ls, ic_series) >>))

\* The loop of line 218 over the factors, in the insertion order of self.factors.
EvaluateEach(fs, rets, quantiles) ==
    Bind(Eager([n \in 1..Len(FactorNames) |->
                IF FactorNames[n] \in DOMAIN fs
                THEN EvaluateFactor(fs, rets, FactorNames[n], quantiles) ELSE <<>>]),
         LAMBDA each : each[1] \o each[2] \o each[3])

\* Line 241: isinstance(r, dict)
IsDict(item) == item.type = "dict"

SharpeRatios(items) ==
    Bind({j \in 1..Len(items) : IsDict(items[j])},
         LAMBDA keep : [p \in 1..Cardinality(keep) |->
             items[CHOOSE j \in keep : Cardinality({h \in keep : h <= j}) = p].value.sharpe_ratio])

\* A variant of AverageSharpe: np.mean(sharpe_ratios) even of an empty list.
AverageSharpeUnguarded(sharpe_ratios) == [kind |-> "mean", of |-> sharpe_ratios]

\* Line 242: np.mean(sharpe_ratios) if sharpe_ratios else 0.  The mean is kept as
\* the values it averages.
AverageSharpe(sharpe_ratios) ==
    IF sharpe_ratios # <<>> THEN [kind |-> "mean", of |-> sharpe_ratios]
    ELSE [kind |-> "zero", of |-> <<>>]

WithAverage(items) ==
    items \o << [key |-> "average_sharpe", type |-> "float",
                 value |-> AverageSharpe(SharpeRatios(items))] >>

\* evaluate_all_factors, lines 215-244: the items of the results dictionary, in
\* insertion order.
all_factors_results(fs, rets, quantiles) ==
    Bind(EvaluateEach(fs, rets, quantiles)
            \o << [key |-> "correlation_matrix", type |-> "DataFrame",
                   value |-> factor_correlation(fs)] >>,
         WithAverage)

\* The factors evaluate_all_factors skipped: those without an entry.
SkippedFactors(fs, items) ==
    {n \in DOMAIN fs : \A j \in 1..Len(items) : items[j].key # n}

----------------------------------------------------------------------------
(* The instance as a state machine: one action per method call.            *)

Quantiles == (DefaultQuantiles - 1)..DefaultQuantiles

NoCall == [op |-> "", name |-> "", quantiles |-> 0, raises |-> "", value |-> <<>>,
           group_returns |-> <<>>, factor_quantiles |-> <<>>, diag |-> <<>>,
           done |-> {}]

\* The input of the model: a close panel of n dates whose prices are a[i] up to
\* two dates before the last, b[i] on the date before the last and c[i] on the
\* last (0: no close that day).  Open, high and low repeat the close (flat bars)
\* and the volume is constant.
ClosePanel(n, a, b, c) ==
    [d \in 1..n |-> [i \in Instruments |->
        IF d = n THEN (IF c[i] = 0 THEN NaN ELSE Num(c[i]))
        ELSE IF d = n - 1 THEN Num(b[i]) ELSE Num(a[i])]]

VolumePanel(n) == [d \in 1..n |-> [i \in Instruments |-> One]]

DateCounts == {1, NumDates}

Init ==
    /\ \E n \in DateCounts, absent \in Keys \cup {"none"} :
       \E a \in [Instruments -> 1..MaxPrice], b \in [Instruments -> 1..MaxPrice],
          c \in [Instruments -> 0..MaxPrice] :
            ohlcv_data = [k \in Keys \ {absent} |->
                            IF k = "volume" THEN VolumePanel(n) ELSE ClosePanel(n, a, b, c)]
    /\ fill_pad \in BOOLEAN
    /\ factors = <<>>
    /\ returns = <<>>
    /\ pc = "new"
    /\ last = NoCall
    /\ computed = {}
    /\ assigned = {}

\* __init__, lines 22-24.  ohlcv_data['close'] raises KeyError after the first two
\* attributes have been assigned.
Construct ==
    /\ pc = "new"
    /\ IF "close" \in DOMAIN ohlcv_data
       THEN /\ returns' = ForwardReturns(ohlcv_data["close"])
            /\ computed' = computed \cup {"returns"}
            /\ assigned' = {"ohlcv_data", "factors", "returns"}
            /\ pc' = "idle"
            /\ last' = NoCall
       ELSE /\ returns' = returns
            /\ computed' = computed
            /\ assigned' = {"ohlcv_data", "factors"}
            /\ pc' = "dead"
            /\ last' = [NoCall EXCEPT !.op = "__init__", !.raises = "close"]
    /\ UNCHANGED <<ohlcv_data, factors, fill_pad>>

\* calculate_factors, lines 29-42: the factors calculate_all_factors returns, or
\* the KeyError it raises.
FactorsOf(data) == Bind(filtered_data(data), calculate_all_factors)

\* self.factors is assigned only if calculate_all_factors returns.
CalculateFactors ==
    /\ pc = "idle"
    /\ \E r \in {FactorsOf(ohlcv_data)} :
           /\ factors' = IF r.raises = "" THEN r.value ELSE factors
           /\ computed' = computed \cup r.done
           /\ pc' = IF r.raises = "" THEN "returned" ELSE "raised"
           /\ last' = [NoCall EXCEPT !.op = "calculate_factors", !.raises = r.raises,
                                     !.done = r.done]
    /\ UNCHANGED <<ohlcv_data, returns, fill_pad, assigned>>

\* A variant of EnsureFactors: calculate_factors is called whatever self.factors
\* holds.
EnsureFactorsAlways == FactorsOf(ohlcv_data)

\* "if not self.factors: self.calculate_factors()": the dictionary the method goes
\* on with, or the KeyError of calculate_factors.
EnsureFactors ==
    IF factors # <<>> THEN [raises |-> "", done |-> {}, value |-> factors]
    ELSE FactorsOf(ohlcv_data)

\* A method that starts with the lazy computation of the factors, reads
\* self.factors[name] when it takes a name (KeyError if there is none), and then
\* returns Result computed from the factors.
Method(op, name, q, Result(_)) ==
    /\ pc = "idle"
    /\ \E e \in {EnsureFactors} :
           /\ factors' = IF e.raises = "" THEN e.value ELSE factors
           /\ computed' = computed \cup e.done
           /\ IF e.raises # ""
              THEN /\ pc' = "raised"
                   /\ last' = [NoCall EXCEPT !.op = op, !.name = name, !.quantiles = q,
                                             !.raises = e.raises, !.done = e.done]
              ELSE IF name # "" /\ name \notin DOMAIN e.value
              THEN /\ pc' = "raised"
                   /\ last' = [NoCall EXCEPT !.op = op, !.name = name, !.quantiles = q,
                                             !.raises = name, !.done = e.done]
              ELSE /\ pc' = "returned"
                   /\ \E r \in {Result(e.value)} :
                        last' = [op |-> op, name |-> name, quantiles |-> q, raises |-> "",
                                 value |-> r.value, group_returns |-> r.group_returns,
                                 factor_quantiles |-> r.factor_quantiles, diag |-> r.diag,
                                 done |-> e.done]
    /\ UNCHANGED <<ohlcv_data, returns, fill_pad, assigned>>

FactorReturnsResult(fs, name, q) ==
    Bind(factor_returns(fs[name], returns, q),
         LAMBDA r : [value |-> r.value, group_returns |-> <<>>,
                     factor_quantiles |-> r.factor_quantiles, diag |-> r.diag])

CalculateFactorReturns(name, q) ==
    Method("calculate_factor_returns", name, q, LAMBDA fs : FactorReturnsResult(fs, name, q))

LongShortResult(fs, name, q) ==
    Bind(long_short_returns(fs[name], returns, q),
         LAMBDA r : [value |-> r.value, group_returns |-> r.group_returns,
                     factor_quantiles |-> r.factor_quantiles, diag |-> r.diag])

CalculateLongShortReturns(name, q) ==
    Method("calculate_long_short_returns", name, q, LAMBDA fs : LongShortResult(fs, name, q))

FactorIcResult(fs, name) ==
    [value |-> factor_ic(fs[name], returns), group_returns |-> <<>>,
     factor_quantiles |-> <<>>, diag |-> <<>>]

CalculateFactorIc(name) ==
    Method("calculate_factor_ic", name, 0, LAMBDA fs : FactorIcResult(fs, name))

\* calculate_sharpe_ratio of the series the caller holds: the long-short returns
\* that were just returned to it (kept in group_returns of the new record).
CalculateSharpeRatio ==
    /\ pc = "returned"
    /\ last.op = "calculate_long_short_returns"
    /\ last' = [NoCall EXCEPT !.op = "calculate_sharpe_ratio",
                              !.value = sharpe_ratio(last.value, Annualization),
                              !.group_returns = last.value]
    /\ UNCHANGED <<ohlcv_data, factors, returns, fill_pad, pc, computed, assigned>>

CorrelationResult(fs) ==
    [value |-> factor_correlation(fs), group_returns |-> <<>>,
     factor_quantiles |-> <<>>, diag |-> <<>>]

CalculateFactorCorrelation ==
    Method("calculate_factor_correlation", "", 0, CorrelationResult)

EvaluateResult(fs, q) ==
    Bind(all_factors_results(fs, returns, q),
         LAMBDA items : [value |-> items, group_returns |-> <<>>,
                         factor_quantiles |-> <<>>, diag |-> SkippedFactors(fs, items)])

EvaluateAllFactors(q) ==
    Method("evaluate_all_factors", "", q, LAMBDA fs : EvaluateResult(fs, q))

\* The caller takes the value (or catches the exception) and goes on.
Consume ==
    /\ pc \in {"returned", "raised"}
    /\ pc' = "idle"
    /\ last' = NoCall
    /\ UNCHANGED <<ohlcv_data, factors, returns, fill_pad, computed, assigned>>

Next ==
    \/ Construct
    \/ CalculateFactors
    \/ \E name \in FactorNameSet, q \in Quantiles : CalculateFactorReturns(name, q)
    \/ \E name \in FactorNameSet, q \in Quantiles : CalculateLongShortReturns(name, q)
    \/ \E name \in FactorNameSet : CalculateFactorIc(name)
    \/ CalculateSharpeRatio
    \/ CalculateFactorCorrelation
    \/ \E q \in Quantiles : EvaluateAllFactors(q)
    \/ Consume

Spec == Init /\ [][Next]_vars

\* The instances whose prices are 1 on every date but the last: the calls of the
\* methods in any order, on fewer inputs.
FlatInit ==
    /\ Init
    /\ \A k \in DOMAIN ohlcv_data : \A d \in Index(ohlcv_data[k]) :
            d < Cardinality(Index(ohlcv_data[k])) =>
                ohlcv_data[k][d] = [i \in Instruments |-> One]

FlatSpec == FlatInit /\ [][Next]_vars

----------------------------------------------------------------------------
(* The methods as functions of self.factors and self.returns: an instance  *)
(* whose factor panel and forward returns are drawn freely, one date of    *)
(* RowInst instruments or LongDates dates of LongInst instruments.         *)

FactorValues(max) == {NaN} \cup {Num(v) : v \in 1..max}
ReturnValues == {NaN} \cup {Num(v) : v \in 1..MaxRet}
Shapes == {[dates |-> 1, insts |-> RowInst, vals |-> MaxVal],
           [dates |-> LongDates, insts |-> LongInst, vals |-> LongVal]}

PanelInit ==
    /\ \E shape \in Shapes :
          /\ factors \in [{"price_reversal"} ->
                [1..shape.dates -> [1..shape.insts -> FactorValues(shape.vals)]]]
          /\ returns \in [1..shape.dates -> [1..shape.insts -> ReturnValues]]
    /\ ohlcv_data = <<>>
    /\ fill_pad = FALSE
    /\ pc = "idle"
    /\ last = NoCall
    /\ computed = {"returns"} \cup DOMAIN factors
    /\ assigned = {"ohlcv_data", "factors", "returns"}

PanelNext ==
    \/ \E name \in DOMAIN factors, q \in Quantiles : CalculateFactorReturns(name, q)
    \/ \E name \in DOMAIN factors, q \in Quantiles : CalculateLongShortReturns(name, q)
    \/ \E name \in DOMAIN factors : CalculateFactorIc(name)
    \/ CalculateSharpeRatio
    \/ \E q \in Quantiles : EvaluateAllFactors(q)
    \/ Consume

PanelSpec == PanelInit /\ [][PanelNext]_vars

----------------------------------------------------------------------------
(* Properties.  A call that has just returned is described by `last`; the  *)
(* instance it ran on by factors and returns.                              *)

Returned(op) == pc = "returned" /\ last.op = op /\ last.raises = ""

\* The instruments labelled q in a row of labels.
Bucket(labels, q) == {i \in DOMAIN labels : labels[i] = q}

\* The dates of the call's factor whose row has at least k = quantiles distinct
\* non-missing values, and those whose row has fewer.
DistinctValues(row) == {row[i] : i \in {j \in DOMAIN row : notna(row[j])}}
DatesWithEnough ==
    {d \in Index(factors[last.name]) :
        Cardinality(DistinctValues(factors[last.name][d])) >= last.quantiles}
DatesWithout == Index(factors[last.name]) \ DatesWithEnough

\* C1: in calculate_factor_returns, on every date whose factor row has at least k
\* distinct non-missing values, every instrument with a factor value gets exactly
\* one label of Q1..Qk, every instrument without one gets no label, and the sizes
\* of any two of the k buckets differ by at most 1.
C1_Bucketing ==
    Returned("calculate_factor_returns") =>
        \A d \in DatesWithEnough :
            /\ \A i \in Columns(factors[last.name]) :
                  IF notna(factors[last.name][d][i])
                  THEN last.factor_quantiles[d][i] \in 1..last.quantiles
                  ELSE last.factor_quantiles[d][i] = 0
            /\ \A p, q \in 1..last.quantiles :
                  Cardinality(Bucket(last.factor_quantiles[d], p))
                    - Cardinality(Bucket(last.factor_quantiles[d], q)) <= 1

\* A bucketed date whose buckets do not all have the same size.
C1_Witness ==
    /\ Returned("calculate_factor_returns")
    /\ \E d \in DatesWithEnough : \E p, q \in 1..last.quantiles :
            Cardinality(Bucket(last.factor_quantiles[d], p))
                > Cardinality(Bucket(last.factor_quantiles[d], q))

\* C2: for every date whose factor row has fewer than k distinct non-missing
\* values, calculate_factor_returns assigns no label to any instrument on that
\* date, and every bucket return series Q1..Qk it returns has no value (missing,
\* not 0) at that date, even when forward returns are present for the date.
C2_SkippedDatesMissing ==
    Returned("calculate_factor_returns") =>
        \A d \in DatesWithout :
            /\ \A i \in Columns(factors[last.name]) : last.factor_quantiles[d][i] = 0
            /\ \A q \in 1..last.quantiles : IsNaN(last.value[q][d])

\* The equal-weighted mean forward return of the instruments labelled q on date d:
\* the sum of their non-missing forward returns over the number of them.
MembersWithReturn(labels, q, d) ==
    {i \in Bucket(labels[d], q) : d \in Index(returns) /\ notna(returns[d][i])}

BucketMean(labels, q, d) ==
    IF MembersWithReturn(labels, q, d) = {} THEN NaN
    ELSE Div(SumOver(returns[d], MembersWithReturn(labels, q, d)),
             Num(Cardinality(MembersWithReturn(labels, q, d))))

\* C3: for every label q and every bucketed date t, the value of the q series at t
\* returned by calculate_factor_returns is the sum of the forward returns of the
\* instruments labelled q at t divided by the number of those instruments.
C3_BucketMean ==
    Returned("calculate_factor_returns") =>
        \A d \in DatesWithEnough : \A q \in 1..last.quantiles :
            last.value[q][d] = BucketMean(last.factor_quantiles, q, d)

\* C4: the series returned by calculate_long_short_returns has, at every date where
\* both the Qk and the Q1 bucket return are defined, the value Qk - Q1, and is
\* missing at every date where either of the two is missing.
C4_LongShort ==
    Returned("calculate_long_short_returns") =>
        /\ DOMAIN last.value = DOMAIN last.group_returns[1]
        /\ \A d \in DOMAIN last.value :
              IF notna(last.group_returns[last.quantiles][d])
                    /\ notna(last.group_returns[1][d])
              THEN last.value[d] = Add(last.group_returns[last.quantiles][d],
                                       Neg(last.group_returns[1][d]))
              ELSE IsNaN(last.value[d])

\* A long-short series with a non-zero value at one date and none at another.
C4_Witness ==
    /\ Returned("calculate_long_short_returns")
    /\ \E d \in DOMAIN last.value : notna(last.value[d]) /\ last.value[d] # Zero
    /\ \E d \in DOMAIN last.value : IsNaN(last.value[d])

\* C5: if bucketing never succeeded for a factor (every date skipped),
\* calculate_long_short_returns does not raise, takes its "no valid grouping"
\* branch (emits the warning) and returns a series with no defined value at any
\* date.
C5_NoValidGrouping ==
    (pc \in {"returned", "raised"} /\ last.op = "calculate_long_short_returns"
        /\ last.name \in DOMAIN factors /\ DatesWithEnough = {}) =>
            /\ last.raises = ""
            /\ last.diag = "no_grouping"
            /\ \A d \in DOMAIN last.value : IsNaN(last.value[d])

\* The per-factor entries of the results of evaluate_all_factors, in order, and the
\* value under a key.
Entries(items) == SelectSeq(items, LAMBDA item : item.key \in FactorNameSet)
HasEntry(items, name) == \E j \in 1..Len(items) : items[j].key = name
ValueOf(items, key) == items[CHOOSE j \in 1..Len(items) : items[j].key = key].value

\* The factor has a value for every instrument on every date, the same for all
\* instruments of a date.
IdenticalAcrossInstruments(factor) ==
    /\ Index(factor) # {}
    /\ \A d \in Index(factor) : \A i, j \in Columns(factor) :
            notna(factor[d][i]) /\ factor[d][i] = factor[d][j]

\* C6: in evaluate_all_factors, a factor whose values are identical across all
\* instruments on every date has every date skipped by the bucketer, gets no
\* per-factor entry in the results, does not stop the other factors from being
\* evaluated, and contributes no Sharpe ratio to average_sharpe.
C6_ConstantFactorExcluded ==
    (pc \in {"returned", "raised"} /\ last.op = "evaluate_all_factors") =>
        \A name \in DOMAIN factors :
            IdenticalAcrossInstruments(factors[name]) =>
                /\ last.raises = ""
                /\ ~HasEntry(last.value, name)
                /\ name \in last.diag
                /\ Len(ValueOf(last.value, "average_sharpe").of)
                        = Cardinality({n \in DOMAIN factors \ {name} : HasEntry(last.value, n)})

\* C7: the average_sharpe returned by evaluate_all_factors is the arithmetic mean
\* of sharpe_ratio over exactly the factors that have a per-factor entry in the
\* results (the correlation_matrix entry is not counted), and 0 when no factor has
\* an entry.
C7_AverageSharpe ==
    Returned("evaluate_all_factors") =>
        ValueOf(last.value, "average_sharpe") =
            IF Entries(last.value) = <<>>
            THEN [kind |-> "zero", of |-> <<>>]
            ELSE [kind |-> "mean",
                  of |-> [j \in 1..Len(Entries(last.value)) |->
                             Entries(last.value)[j].value.sharpe_ratio]]

\* Results with the entries of several factors.
C7_Witness ==
    /\ Returned("evaluate_all_factors")
    /\ Len(Entries(last.value)) > 1
    /\ HasEntry(last.value, "correlation_matrix")

\* The instruments with both a factor value and a forward return on date d.
PairsOn(d) ==
    IF d \in Index(returns)
    THEN {i \in Columns(factors[last.name]) :
            notna(factors[last.name][d][i]) /\ notna(returns[d][i])}
    ELSE {}

\* Neither the factor values nor the forward returns of the pairs are all equal.
Varies(row, keys) == \E i, j \in keys : row[i] # row[j]

\* C8: for every date of the factor panel, the value calculate_factor_ic returns is
\* missing when fewer than 2 instruments have both a factor value and a forward
\* return on that date, and a number in [-1, 1] when at least 2 have both.
C8_IcDefinedWithTwoPairs ==
    Returned("calculate_factor_ic") =>
        /\ DOMAIN last.value = Index(factors[last.name])
        /\ \A d \in Index(factors[last.name]) :
              IF Cardinality(PairsOn(d)) < 2
              THEN RootIsNaN(last.value[d])
              ELSE RootInUnit(last.value[d])

\* C8 amended: the value is a number in [-1, 1] when at least 2 instruments have
\* both a factor value and a forward return on the date and neither the factor
\* values nor the forward returns of those instruments are all equal; it is
\* missing otherwise; every date of the factor panel has its place in the series.
C8_IcDefinedWhenVarying ==
    Returned("calculate_factor_ic") =>
        /\ DOMAIN last.value = Index(factors[last.name])
        /\ \A d \in Index(factors[last.name]) :
              IF /\ Cardinality(PairsOn(d)) >= 2
                 /\ Varies(factors[last.name][d], PairsOn(d))
                 /\ Varies(returns[d], PairsOn(d))
              THEN RootInUnit(last.value[d])
              ELSE RootIsNaN(last.value[d])

\* A date with too few pairs followed by a date with a defined coefficient.
C8_Witness ==
    /\ Returned("calculate_factor_ic")
    /\ \E d, e \in Index(factors[last.name]) :
          /\ d < e
          /\ Cardinality(PairsOn(d)) < 2 /\ RootIsNaN(last.value[d])
          /\ Cardinality(PairsOn(e)) >= 2 /\ RootInUnit(last.value[e])

\* The series calculate_sharpe_ratio was called on, its mean and the square of
\* its standard deviation.
SharpeInput == last.group_returns
MeanOfInput == Mean(SharpeInput, DOMAIN SharpeInput)
VarOfInput == Var(SharpeInput, DOMAIN SharpeInput)

VarOfSeries(series) == Var(series, DOMAIN series)

\* mean * A / (std * sqrt(A)) as a square-root value: the sign of the mean and
\* the square mean^2 * A / std^2.
AnnualizedRatio(mean, var, a) ==
    [sgn |-> Sign(mean[1]), sq |-> Div(Mul(Mul(mean, mean), Num(a)), var)]

\* C9: calculate_sharpe_ratio returns mean(r) * A / (std(r) * sqrt(A)) when the
\* standard deviation of r is a non-zero number and exactly 0 when it is zero; the
\* ic_ir of every entry of evaluate_all_factors is mean(IC) / std(IC) under the
\* same guard, 0 when the deviation is zero; a zero deviation never gives a NaN
\* or infinite ratio.
C9_ZeroDeviationGuard ==
    /\ (pc = "returned" /\ last.op = "calculate_sharpe_ratio") =>
          /\ VarOfInput = Zero => last.value = RootZero
          /\ (IsFinite(VarOfInput) /\ VarOfInput # Zero) =>
                /\ last.value = AnnualizedRatio(MeanOfInput, VarOfInput, Annualization)
                /\ RootIsFinite(last.value)
    /\ Returned("evaluate_all_factors") =>
          \A j \in 1..Len(Entries(last.value)) :
              LET entry == Entries(last.value)[j].value
              IN  /\ StdOf(entry.mean_ic.of) = "zero" =>
                        entry.ic_ir = [kind |-> "zero", of |-> <<>>]
                  /\ StdOf(entry.mean_ic.of) = "positive" =>
                        entry.ic_ir = [kind |-> "mean_over_std", of |-> entry.mean_ic.of]
                  /\ VarOfSeries(entry.returns) = Zero => entry.sharpe_ratio = RootZero

\* A Sharpe ratio of a series with a non-zero mean and a zero deviation.
C9_Witness ==
    /\ pc = "returned" /\ last.op = "calculate_sharpe_ratio"
    /\ VarOfInput = Zero
    /\ MeanOfInput # Zero
    /\ last.value = RootZero

\* C10: when the input dictionary lacks one of the required keys (open, high, low,
\* close, volume), the failure is raised before any computation begins: at the
\* moment the error is raised no forward return and no factor has been computed
\* and self.returns and self.factors hold nothing.
C10_FailFast ==
    (pc \in {"dead", "raised"} /\ last.raises \in Keys) =>
        /\ computed = {}
        /\ returns = <<>>
        /\ factors = <<>>

\* The values of a factor by (date, instrument), and the square of their
\* standard deviation.
CellsOf(factor) == [c \in Index(factor) \X Columns(factor) |-> factor[c[1]][c[2]]]
VarOfFactor(factor) == Var(CellsOf(factor), DOMAIN CellsOf(factor))

RootOne == [sgn |-> 1, sq |-> One]

\* C11: the matrix returned by calculate_factor_correlation has exactly one row
\* and one column per factor name of self.factors, is symmetric, has diagonal
\* entry 1 for every factor with non-zero variance, and has entry 1 between two
\* factors whose values are identical on every (date, instrument).
C11_CorrelationMatrix ==
    Returned("calculate_factor_correlation") =>
        /\ DOMAIN last.value = DOMAIN factors
        /\ \A a \in DOMAIN factors : DOMAIN last.value[a] = DOMAIN factors
        /\ \A a, b \in DOMAIN factors : last.value[a][b] = last.value[b][a]
        /\ \A a \in DOMAIN factors :
              (IsFinite(VarOfFactor(factors[a])) /\ VarOfFactor(factors[a]) # Zero)
                  => last.value[a][a] = RootOne
        /\ \A a, b \in DOMAIN factors :
              factors[a] = factors[b] => last.value[a][b] = RootOne

\* C12: on every bucketed date the labels are monotone in the factor value: of two
\* labelled instruments, the one with the lower label has a factor value that is
\* not greater; and of two instruments with equal factor values, the one earlier
\* in column order never has the higher label.
C12_LabelsMonotone ==
    Returned("calculate_factor_returns") =>
        \A d \in DatesWithEnough :
            \A a, b \in Columns(factors[last.name]) :
                (last.factor_quantiles[d][a] # 0 /\ last.factor_quantiles[d][b] # 0) =>
                    /\ last.factor_quantiles[d][a] < last.factor_quantiles[d][b]
                          => ~LessV(factors[last.name][d][b], factors[last.name][d][a])
                    /\ (factors[last.name][d][a] = factors[last.name][d][b] /\ a < b)
                          => last.factor_quantiles[d][a] <= last.factor_quantiles[d][b]

\* A bucketed date on which two instruments with equal factor values get
\* different labels.
C12_Witness ==
    /\ Returned("calculate_factor_returns")
    /\ \E d \in DatesWithEnough : \E a, b \in Columns(factors[last.name]) :
          /\ a < b
          /\ factors[last.name][d][a] = factors[last.name][d][b]
          /\ notna(factors[last.name][d][a])
          /\ last.factor_quantiles[d][a] # 0
          /\ last.factor_quantiles[d][a] < last.factor_quantiles[d][b]

\* The methods that compute the factors lazily, and a step that is a call of one
\* of them.
LazyMethods ==
    {"calculate_factor_returns", "calculate_long_short_returns", "calculate_factor_ic",
     "calculate_factor_correlation", "evaluate_all_factors"}

LazyCall == pc = "idle" /\ pc' \in {"returned", "raised"} /\ last'.op \in LazyMethods

====
